---------------------------- MODULE Spec2Model ----------------------------
(***************************************************************************)
(* A model of lox_rs: the scanner (src/src/lox/scanner.rs), the recursive  *)
(* descent parser (src/src/lox/parser.rs), the tree-walking evaluator      *)
(* (src/src/lox/interpreter.rs) and the driver Lox::run                    *)
(* (src/src/lox/mod.rs).                                                   *)
(*                                                                         *)
(* Characters are one-character strings, texts are sequences of them.      *)
(* An f64 is a record: a signed exact rational (cls "fin"), a signed       *)
(* infinity (cls "inf") or NaN (cls "nan"); rounding is not modelled, the  *)
(* special values, the signed zero and their IEEE-754 rules are.           *)
(***************************************************************************)
EXTENDS Integers, Sequences, FiniteSets, TLC

VARIABLES scanner, scanned, parser, parsed, printed, pc, panic

vars == <<scanner, scanned, parser, parsed, printed, pc, panic>>

(***************************************************************************)
(* Bounds of the model.                                                    *)
(***************************************************************************)
\* longest source text drawn character by character
MaxSrcLen == 3
\* most lexemes in a source drawn lexeme by lexeme
MaxTokens == 4
\* most binary operators in an operand/operator chain
MaxOps == 2
\* largest number literal among the evaluator's operands
MaxNum == 2
\* longest string literal among the evaluator's operands
MaxStrLen == 2

MaxLineLen == 2

\* F applied to the value of v: v is computed once, also where it is used
\* many times in F
Bind(v, F(_)) == CHOOSE out \in {F(x) : x \in {v}} : TRUE

(***************************************************************************)
(* f64                                                                     *)
(***************************************************************************)
RECURSIVE GCD(_, _)
GCD(a, b) ==
    IF b = 0 THEN a ELSE GCD(b, a % b)

RECURSIVE Pow10(_)
Pow10(k) ==
    IF k = 0 THEN 1 ELSE 10 * Pow10(k - 1)

Fin(neg, num, den) ==
    LET g == GCD(num, den)
    IN  [cls |-> "fin", neg |-> neg, num |-> num \div g, den |-> den \div g]

Inf(neg) ==
    [cls |-> "inf", neg |-> neg, num |-> 1, den |-> 0]

NaN ==
    [cls |-> "nan", neg |-> FALSE, num |-> 0, den |-> 0]

FromInt(i) ==
    IF i < 0 THEN Fin(TRUE, 0 - i, 1) ELSE Fin(FALSE, i, 1)

IsZero(a) ==
    a.cls = "fin" /\ a.num = 0

SNum(a) ==
    IF a.neg THEN 0 - a.num ELSE a.num

\* the value of numerator n over denominator d > 0, with the sign z of a zero
FromRatio(n, d, z) ==
    IF n = 0 THEN Fin(z, 0, 1)
    ELSE IF n < 0 THEN Fin(TRUE, 0 - n, d) ELSE Fin(FALSE, n, d)

\* l == r on f64
f_eq(a, b) ==
    IF a.cls = "nan" \/ b.cls = "nan" THEN FALSE
    ELSE IF IsZero(a) \/ IsZero(b) THEN IsZero(a) /\ IsZero(b)
    ELSE a = b

\* l < r on f64
f_lt(a, b) ==
    IF a.cls = "nan" \/ b.cls = "nan" THEN FALSE
    ELSE IF a.cls = "inf" THEN a.neg /\ ~(b.cls = "inf" /\ b.neg)
    ELSE IF b.cls = "inf" THEN ~b.neg
    ELSE SNum(a) * b.den < SNum(b) * a.den

f_le(a, b) ==
    f_lt(a, b) \/ f_eq(a, b)

\* -n on f64
f_neg(a) ==
    IF a.cls = "nan" THEN NaN ELSE [a EXCEPT !.neg = ~a.neg]

\* l + r on f64
f_add(a, b) ==
    IF a.cls = "nan" \/ b.cls = "nan" THEN NaN
    ELSE IF a.cls = "inf" /\ b.cls = "inf"
         THEN IF a.neg = b.neg THEN a ELSE NaN
    ELSE IF a.cls = "inf" THEN a
    ELSE IF b.cls = "inf" THEN b
    ELSE FromRatio(SNum(a) * b.den + SNum(b) * a.den, a.den * b.den,
                   a.neg /\ b.neg)

\* l - r on f64
f_sub(a, b) ==
    f_add(a, f_neg(b))

\* l * r on f64
f_mul(a, b) ==
    IF a.cls = "nan" \/ b.cls = "nan" THEN NaN
    ELSE IF a.cls = "inf" \/ b.cls = "inf"
         THEN IF IsZero(a) \/ IsZero(b) THEN NaN ELSE Inf(a.neg # b.neg)
    ELSE Fin(a.neg # b.neg, a.num * b.num, a.den * b.den)

\* l / r on f64
f_div(a, b) ==
    IF a.cls = "nan" \/ b.cls = "nan" THEN NaN
    ELSE IF a.cls = "inf"
         THEN IF b.cls = "inf" THEN NaN ELSE Inf(a.neg # b.neg)
    ELSE IF b.cls = "inf" THEN Fin(a.neg # b.neg, 0, 1)
    ELSE IF IsZero(b)
         THEN IF IsZero(a) THEN NaN ELSE Inf(a.neg # b.neg)
    ELSE Fin(a.neg # b.neg, a.num * b.den, a.den * b.num)

(***************************************************************************)
(* Characters                                                              *)
(***************************************************************************)
DigitChars == <<"0", "1", "2", "3", "4", "5", "6", "7", "8", "9">>

Digits == {DigitChars[i] : i \in 1..10}

DigitVal(c) ==
    (CHOOSE i \in 1..10 : DigitChars[i] = c) - 1

\* char::is_digit(10)
is_digit(c) ==
    c \in Digits

Letters ==
    {"a", "b", "c", "d", "e", "f", "g", "h", "i", "j", "k", "l", "m",
     "n", "o", "p", "q", "r", "s", "t", "u", "v", "w", "x", "y", "z",
     "A", "B", "C", "D", "E", "F", "G", "H", "I", "J", "K", "L", "M",
     "N", "O", "P", "Q", "R", "S", "T", "U", "V", "W", "X", "Y", "Z"}

\* the value of a run of decimal digits
RECURSIVE DigitsValue(_)
DigitsValue(ds) ==
    IF ds = <<>> THEN 0
    ELSE 10 * DigitsValue(SubSeq(ds, 1, Len(ds) - 1)) + DigitVal(ds[Len(ds)])

\* the index of the first character from i on that is no digit
RECURSIVE DigitRunEnd(_, _)
DigitRunEnd(s, i) ==
    IF i <= Len(s) /\ is_digit(s[i]) THEN DigitRunEnd(s, i + 1) ELSE i

ToLowerChar(c) ==
    CASE c = "I" -> "i" [] c = "N" -> "n" [] c = "F" -> "f" [] c = "T" -> "t"
      [] c = "Y" -> "y" [] c = "A" -> "a" [] c = "E" -> "e" [] OTHER -> c

ToLower(s) ==
    [i \in 1..Len(s) |-> ToLowerChar(s[i])]

(***************************************************************************)
(* str::parse::<f64>: Sign? ('inf' | 'infinity' | 'nan' | Number), with    *)
(* Number ::= (Digit+ | Digit+ '.' Digit* | Digit* '.' Digit+) Exp? and    *)
(* Exp ::= 'e' Sign? Digit+, letters in either case.  The result is        *)
(* [ok |-> FALSE] or [ok |-> TRUE, v |-> the f64].                         *)
(***************************************************************************)
ParseDecimal(neg, body) ==
    LET n      == Len(body)
        iEnd   == DigitRunEnd(body, 1)
        hasDot == iEnd <= n /\ body[iEnd] = "."
        fBeg   == IF hasDot THEN iEnd + 1 ELSE iEnd
        fEnd   == IF hasDot THEN DigitRunEnd(body, fBeg) ELSE iEnd
        ip     == SubSeq(body, 1, iEnd - 1)
        fp     == SubSeq(body, fBeg, fEnd - 1)
        hasExp == fEnd <= n /\ body[fEnd] \in {"e", "E"}
        sBeg   == fEnd + 1
        eSign  == hasExp /\ sBeg <= n /\ body[sBeg] \in {"+", "-"}
        eNeg   == eSign /\ body[sBeg] = "-"
        eBeg   == IF eSign THEN sBeg + 1 ELSE sBeg
        eEnd   == IF hasExp THEN DigitRunEnd(body, eBeg) ELSE fEnd
        ex     == IF hasExp THEN DigitsValue(SubSeq(body, eBeg, eEnd - 1)) ELSE 0
        mant   == DigitsValue(ip \o fp)
        scale  == Pow10(Len(fp))
    IN  IF Len(ip) + Len(fp) = 0 THEN [ok |-> FALSE]
        ELSE IF hasExp /\ eEnd = eBeg THEN [ok |-> FALSE]
        ELSE IF eEnd # n + 1 THEN [ok |-> FALSE]
        ELSE IF eNeg THEN [ok |-> TRUE, v |-> Fin(neg, mant, scale * Pow10(ex))]
        ELSE [ok |-> TRUE, v |-> Fin(neg, mant * Pow10(ex), scale)]

ParseF64(s) ==
    LET sgn  == Len(s) > 0 /\ s[1] \in {"+", "-"}
        neg  == sgn /\ s[1] = "-"
        body == IF sgn THEN Tail(s) ELSE s
        low  == ToLower(body)
    IN  IF low = <<"i", "n", "f">>
           \/ low = <<"i", "n", "f", "i", "n", "i", "t", "y">>
        THEN [ok |-> TRUE, v |-> Inf(neg)]
        ELSE IF low = <<"n", "a", "n">> THEN [ok |-> TRUE, v |-> NaN]
        ELSE ParseDecimal(neg, body)

(***************************************************************************)
(* Runtime values (interpreter.rs, enum Value) and expression trees        *)
(* (expr.rs, enum Expr and enum Literal).                                  *)
(***************************************************************************)
VNumber(n) == [ty |-> "Number", n |-> n]

VString(s) == [ty |-> "String", s |-> s]

VBool(b) == [ty |-> "Bool", b |-> b]

VNil == [ty |-> "Nil"]

LitNumber(n) == [lit |-> "Number", n |-> n]

LitString(s) == [lit |-> "String", s |-> s]

LitBoolean(b) == [lit |-> "Boolean", b |-> b]

LitNil == [lit |-> "Nil"]

ELiteral(l) == [node |-> "Literal", value |-> l]

EGrouping(e) == [node |-> "Grouping", inner |-> e]

EUnary(op, e) == [node |-> "Unary", op |-> op, right |-> e]

EBinary(l, op, r) == [node |-> "Binary", left |-> l, op |-> op, right |-> r]

\* expr::UnaryOp and expr::BinaryOp: the operator with its token's position
Op(ty, line, col) == [ty |-> ty, line |-> line, col |-> col]

UnaryOpTypes == {"Minus", "Bang"}

BinaryOpTypes ==
    {"EqualEqual", "NotEqual", "Less", "LessEqual", "Greater", "GreaterEqual",
     "Plus", "Minus", "Star", "Slash"}

Ok(v) == [k |-> "Ok", v |-> v]

Err(e) == [k |-> "Err", e |-> e]

\* the place of a result the program has not computed yet
NotYet == [k |-> "NotYet"]

(***************************************************************************)
(* Tokens (token.rs)                                                       *)
(***************************************************************************)
NoLiteral == [some |-> FALSE]

SomeLiteral(l) == [some |-> TRUE, lit |-> l]

TokNumber(n) == [lit |-> "Number", n |-> n]

TokIdentifier(s) == [lit |-> "Identifier", s |-> s]

TokStr(s) == [lit |-> "Str", s |-> s]

Token_new(ty, lexeme, literal, line, col) ==
    [ty |-> ty, lexeme |-> lexeme, literal |-> literal, line |-> line,
     col |-> col]

(***************************************************************************)
(* Interpreter                                                             *)
(***************************************************************************)
\* is_truthy() that takes every number, zero too, as true
is_truthy_any_number(val) ==
    CASE val.ty = "Nil" -> FALSE
      [] val.ty = "Bool" -> val.b
      [] OTHER -> TRUE

is_truthy(val) ==
    CASE val.ty = "Nil" -> FALSE
      [] val.ty = "Bool" -> val.b
      [] val.ty = "Number" -> ~f_eq(val.n, FromInt(0))
      [] OTHER -> TRUE

\* is_equal() without the cast of a string to a number
is_equal_no_cast(left, right) ==
    CASE left.ty = "Nil" /\ right.ty = "Nil" -> TRUE
      [] left.ty = "Number" /\ right.ty = "Number" -> f_eq(left.n, right.n)
      [] left.ty = "String" /\ right.ty = "String" -> left.s = right.s
      [] left.ty = "Bool" /\ right.ty = "Bool" -> left.b = right.b
      [] OTHER -> FALSE

is_equal(left, right) ==
    CASE left.ty = "Nil" /\ right.ty = "Nil" -> TRUE
      [] left.ty = "Number" /\ right.ty = "Number" -> f_eq(left.n, right.n)
      [] left.ty = "String" /\ right.ty = "String" -> left.s = right.s
      [] left.ty = "Bool" /\ right.ty = "Bool" -> left.b = right.b
      [] left.ty = "Number" /\ right.ty = "String" ->
            LET r == ParseF64(right.s)
            IN  IF r.ok THEN f_eq(left.n, r.v) ELSE FALSE
      [] left.ty = "String" /\ right.ty = "Number" ->
            LET l == ParseF64(left.s)
            IN  IF l.ok THEN f_eq(l.v, right.n) ELSE FALSE
      [] OTHER -> FALSE

invalid_binary_operand(op, left, right) ==
    [msg |-> "Invalid operands for binary operation", op |-> op,
     operands |-> <<left, right>>]

invalid_unary_operand(op, operand) ==
    [msg |-> "Invalid operand for unary operation", op |-> op,
     operands |-> <<operand>>]

interpret_literal(lit) ==
    CASE lit.lit = "Number" -> VNumber(lit.n)
      [] lit.lit = "String" -> VString(lit.s)
      [] lit.lit = "Boolean" /\ lit.b -> VBool(TRUE)
      [] lit.lit = "Boolean" /\ ~lit.b -> VBool(FALSE)
      [] lit.lit = "Nil" -> VNil

\* the match of interpret_unary on (op.ty, &val)
apply_unary(op, val) ==
    CASE op.ty = "Minus" /\ val.ty = "Number" -> Ok(VNumber(f_neg(val.n)))
      [] op.ty = "Bang" -> Ok(VBool(~is_truthy(val)))
      [] OTHER -> Err(invalid_unary_operand(op, val))

\* the match of interpret_binary on (op.ty, &left_val, &right_val)
apply_binary(op, l, r) ==
    LET nums == l.ty = "Number" /\ r.ty = "Number"
    IN  CASE op.ty = "Minus" /\ nums -> Ok(VNumber(f_sub(l.n, r.n)))
          [] op.ty = "Slash" /\ nums -> Ok(VNumber(f_div(l.n, r.n)))
          [] op.ty = "Star" /\ nums -> Ok(VNumber(f_mul(l.n, r.n)))
          [] op.ty = "Plus" /\ nums -> Ok(VNumber(f_add(l.n, r.n)))
          [] op.ty = "Plus" /\ l.ty = "String" /\ r.ty = "String" ->
                Ok(VString(l.s \o r.s))
          [] op.ty = "Greater" /\ nums -> Ok(VBool(f_lt(r.n, l.n)))
          [] op.ty = "GreaterEqual" /\ nums -> Ok(VBool(f_le(r.n, l.n)))
          [] op.ty = "Less" /\ nums -> Ok(VBool(f_lt(l.n, r.n)))
          [] op.ty = "LessEqual" /\ nums -> Ok(VBool(f_le(l.n, r.n)))
          [] op.ty = "EqualEqual" -> Ok(VBool(is_equal(l, r)))
          [] op.ty = "NotEqual" -> Ok(VBool(~is_equal(l, r)))
          [] OTHER -> Err(invalid_binary_operand(op, l, r))

RECURSIVE interpret_expr(_)
interpret_unary(op, e) ==
    Bind(interpret_expr(e), LAMBDA val :
        IF val.k = "Err" THEN val ELSE apply_unary(op, val.v))

\* interpret_binary() that gives Nil where the operands do not fit
interpret_binary_nil(left, op, right) ==
    Bind(interpret_expr(left), LAMBDA left_val :
        IF left_val.k = "Err" THEN left_val
        ELSE Bind(interpret_expr(right), LAMBDA right_val :
                IF right_val.k = "Err" THEN right_val
                ELSE Bind(apply_binary(op, left_val.v, right_val.v),
                          LAMBDA res :
                            IF res.k = "Err" THEN Ok(VNil) ELSE res)))

\* interpret_binary() that refuses to divide by zero
interpret_binary_div_by_zero(left, op, right) ==
    Bind(interpret_expr(left), LAMBDA left_val :
        IF left_val.k = "Err" THEN left_val
        ELSE Bind(interpret_expr(right), LAMBDA right_val :
                IF right_val.k = "Err" THEN right_val
                ELSE IF /\ op.ty = "Slash"
                        /\ right_val.v.ty = "Number"
                        /\ IsZero(right_val.v.n)
                THEN Err(invalid_binary_operand(op, left_val.v, right_val.v))
                ELSE apply_binary(op, left_val.v, right_val.v)))

\* interpret_binary() that evaluates the right operand first
interpret_binary_right_first(left, op, right) ==
    Bind(interpret_expr(right), LAMBDA right_val :
        IF right_val.k = "Err" THEN right_val
        ELSE Bind(interpret_expr(left), LAMBDA left_val :
                IF left_val.k = "Err" THEN left_val
                ELSE apply_binary(op, left_val.v, right_val.v)))

interpret_binary(left, op, right) ==
    Bind(interpret_expr(left), LAMBDA left_val :
        IF left_val.k = "Err" THEN left_val
        ELSE Bind(interpret_expr(right), LAMBDA right_val :
                IF right_val.k = "Err" THEN right_val
                ELSE apply_binary(op, left_val.v, right_val.v)))

interpret_expr(e) ==
    CASE e.node = "Literal" -> Ok(interpret_literal(e.value))
      [] e.node = "Binary" -> interpret_binary(e.left, e.op, e.right)
      [] e.node = "Grouping" -> interpret_expr(e.inner)
      [] e.node = "Unary" -> interpret_unary(e.op, e.right)

(***************************************************************************)
(* Parser.  A parser is [tokens, current], current counted from 0 as in    *)
(* the code.  A parsing function returns [p |-> the parser after it,       *)
(* r |-> Ok(expr), Err(ParserError) or Panicked(message)].                 *)
(***************************************************************************)
Panicked(m) == [k |-> "Panic", e |-> m]

Parser_new(tokens) == [tokens |-> tokens, current |-> 0]

ParserError_new(token, message) ==
    [token |-> token, message |-> message, line |-> token.line,
     column |-> token.col]

ExpectRightParen == <<"Expect ')' after expression.">>

UnexpectedToken(ty) == <<"Unexpected Token type", ty>>

\* impl From<Token> for BinaryOp
BinaryOpFrom(token) ==
    Op(IF token.ty = "BangEqual" THEN "NotEqual" ELSE token.ty,
       token.line, token.col)

\* impl From<Token> for UnaryOp
UnaryOpFrom(token) ==
    Op(token.ty, token.line, token.col)

peek(p) == p.tokens[p.current + 1]

previous(p) == p.tokens[p.current]

is_at_end(p) == peek(p).ty = "Eof"

check(p, token_type) ==
    IF is_at_end(p) THEN FALSE ELSE peek(p).ty = token_type

\* the parser after advance(); advance() then reads previous()
advance(p) ==
    IF ~is_at_end(p) THEN [p EXCEPT !.current = @ + 1] ELSE p

match_token(p, types) ==
    IF \E t \in types : check(p, t)
    THEN [p |-> advance(p), m |-> TRUE]
    ELSE [p |-> p, m |-> FALSE]

\* consume() that lets the end of input stand for the token it expects
consume_lenient(p, token_type, message) ==
    IF check(p, token_type)
    THEN [p |-> advance(p), r |-> Ok(previous(advance(p)))]
    ELSE IF is_at_end(p) THEN [p |-> p, r |-> Ok(peek(p))]
    ELSE [p |-> p, r |-> Err(ParserError_new(peek(p), message))]

consume(p, token_type, message) ==
    IF check(p, token_type)
    THEN [p |-> advance(p), r |-> Ok(previous(advance(p)))]
    ELSE [p |-> p, r |-> Err(ParserError_new(peek(p), message))]

\* the literal of the Number or String token just matched
primary_literal(q) ==
    LET token_literal == previous(q).literal
    IN  IF ~token_literal.some
        THEN [p |-> q, r |-> Panicked("TODO: Semantic error message")]
        ELSE IF token_literal.lit.lit = "Number"
        THEN [p |-> q, r |-> Ok(ELiteral(LitNumber(token_literal.lit.n)))]
        ELSE IF token_literal.lit.lit = "Str"
        THEN [p |-> q, r |-> Ok(ELiteral(LitString(token_literal.lit.s)))]
        ELSE [p |-> q, r |-> Panicked("Unexpected error")]

\* the grouping branch of primary, once expression() has returned expr
primary_grouping(expr) ==
    IF expr.r.k = "Panic" THEN expr
    ELSE Bind(consume(expr.p, "RightParen", ExpectRightParen), LAMBDA c :
            IF c.r.k = "Err" THEN c
            ELSE IF expr.r.k = "Ok"
            THEN [p |-> c.p, r |-> Ok(EGrouping(expr.r.v))]
            ELSE [p |-> c.p, r |-> expr.r])

RECURSIVE expression(_)
primary(p) ==
    IF match_token(p, {"False"}).m
    THEN [p |-> advance(p), r |-> Ok(ELiteral(LitBoolean(FALSE)))]
    ELSE IF match_token(p, {"True"}).m
    THEN [p |-> advance(p), r |-> Ok(ELiteral(LitBoolean(TRUE)))]
    ELSE IF match_token(p, {"Nil"}).m
    THEN [p |-> advance(p), r |-> Ok(ELiteral(LitNil))]
    ELSE IF match_token(p, {"Number", "String"}).m
    THEN Bind(advance(p), LAMBDA q : primary_literal(q))
    ELSE IF match_token(p, {"LeftParen"}).m
    THEN Bind(advance(p), LAMBDA q :
            Bind(expression(q), LAMBDA expr : primary_grouping(expr)))
    ELSE [p |-> p,
          r |-> Err(ParserError_new(peek(p), UnexpectedToken(peek(p).ty)))]

RECURSIVE unary(_)
unary(p) ==
    Bind(match_token(p, {"Bang", "Minus"}), LAMBDA m :
        IF m.m
        THEN Bind(unary(m.p), LAMBDA right :
                IF right.r.k # "Ok" THEN right
                ELSE [p |-> right.p,
                      r |-> Ok(EUnary(UnaryOpFrom(previous(m.p)),
                                      right.r.v))])
        ELSE primary(m.p))

\* one turn of a binary level's loop, `while self.match_token(ops) {...}`,
\* after the operator was matched (m) and the right operand parsed (right):
\* the folded expression, or the right operand's error
fold(m, expr, right) ==
    IF right.r.k # "Ok" THEN right
    ELSE [p |-> right.p,
          r |-> Ok(EBinary(expr, BinaryOpFrom(previous(m.p)), right.r.v))]

RECURSIVE factor_loop(_)
factor_loop(acc) ==
    Bind(match_token(acc.p, {"Slash", "Star"}), LAMBDA m :
        IF ~m.m THEN acc
        ELSE Bind(unary(m.p), LAMBDA right :
                Bind(fold(m, acc.r.v, right), LAMBDA next :
                    IF next.r.k # "Ok" THEN next ELSE factor_loop(next))))

\* factor() that parses its right operand with factor(): right-associative
RECURSIVE factor_right_assoc(_)
factor_right_assoc(p) ==
    Bind(unary(p), LAMBDA expr :
        IF expr.r.k # "Ok" THEN expr
        ELSE Bind(match_token(expr.p, {"Slash", "Star"}), LAMBDA m :
                IF ~m.m THEN expr
                ELSE Bind(factor_right_assoc(m.p), LAMBDA right :
                        fold(m, expr.r.v, right))))

factor(p) ==
    Bind(unary(p), LAMBDA expr :
        IF expr.r.k # "Ok" THEN expr ELSE factor_loop(expr))

\* term's loop that parses its right operand with unary(), not factor()
RECURSIVE term_loop_flat(_)
term_loop_flat(acc) ==
    Bind(match_token(acc.p, {"Minus", "Plus"}), LAMBDA m :
        IF ~m.m THEN acc
        ELSE Bind(unary(m.p), LAMBDA right :
                Bind(fold(m, acc.r.v, right), LAMBDA next :
                    IF next.r.k # "Ok" THEN next ELSE term_loop_flat(next))))

RECURSIVE term_loop(_)
term_loop(acc) ==
    Bind(match_token(acc.p, {"Minus", "Plus"}), LAMBDA m :
        IF ~m.m THEN acc
        ELSE Bind(factor(m.p), LAMBDA right :
                Bind(fold(m, acc.r.v, right), LAMBDA next :
                    IF next.r.k # "Ok" THEN next ELSE term_loop(next))))

term(p) ==
    Bind(factor(p), LAMBDA expr :
        IF expr.r.k # "Ok" THEN expr ELSE term_loop(expr))

RECURSIVE comparison_loop(_)
comparison_loop(acc) ==
    Bind(match_token(acc.p,
                     {"Greater", "GreaterEqual", "Less", "LessEqual"}),
         LAMBDA m :
        IF ~m.m THEN acc
        ELSE Bind(term(m.p), LAMBDA right :
                Bind(fold(m, acc.r.v, right), LAMBDA next :
                    IF next.r.k # "Ok" THEN next ELSE comparison_loop(next))))

comparison(p) ==
    Bind(term(p), LAMBDA expr :
        IF expr.r.k # "Ok" THEN expr ELSE comparison_loop(expr))

RECURSIVE equality_loop(_)
equality_loop(acc) ==
    Bind(match_token(acc.p, {"BangEqual", "EqualEqual"}), LAMBDA m :
        IF ~m.m THEN acc
        ELSE Bind(comparison(m.p), LAMBDA right :
                Bind(fold(m, acc.r.v, right), LAMBDA next :
                    IF next.r.k # "Ok" THEN next ELSE equality_loop(next))))

equality(p) ==
    Bind(comparison(p), LAMBDA expr :
        IF expr.r.k # "Ok" THEN expr ELSE equality_loop(expr))

expression(p) == equality(p)

parse(p) == expression(p)

\* the categories at which synchronize stops: the start of a statement
StatementKeywords ==
    {"Class", "Fun", "Var", "For", "If", "While", "Print", "Return"}

\* what the read tokens[current - 1] of previous() does at current = 0: the
\* subtraction overflows, which panics where overflow checks are compiled in
\* and otherwise wraps to an index that the bounds check of the Vec rejects
PreviousPanics ==
    {"attempt to subtract with overflow", "index out of bounds"}

\* synchronize: `while !self.is_at_end() { ... self.advance(); }`
RECURSIVE synchronize_loop(_)
synchronize_loop(p) ==
    IF is_at_end(p) THEN p
    ELSE IF previous(p).ty = "Semicolon" THEN p
    ELSE IF peek(p).ty \in StatementKeywords THEN p
    ELSE Bind(advance(p), LAMBDA q : synchronize_loop(q))

\* synchronize: [p |-> the parser after it, panic |-> whether the read of
\* previous() in its first advance() panicked]
synchronize(p) ==
    Bind(advance(p), LAMBDA q :
        IF q.current = 0 THEN [p |-> q, panic |-> TRUE]
        ELSE [p |-> synchronize_loop(q), panic |-> FALSE])

(***************************************************************************)
(* Scanner.  A scanner is [source, tokens, start, err, current, line,      *)
(* col]; start and current count from 0 as in the code.  A scanning        *)
(* function that can panic returns [s |-> the scanner after it,            *)
(* panic |-> "" or the panic's message].                                   *)
(***************************************************************************)
\* what peek() and peek_next() return at the end of the source: '\0'
NUL == "NUL"

NoError == [some |-> FALSE]

Scanner_new(source) ==
    [source |-> source, tokens |-> <<>>, current |-> 0, line |-> 1,
     err |-> NoError, col |-> 0, start |-> 0]

KeywordOf(text) ==
    CASE text = <<"a", "n", "d">> -> "And"
      [] text = <<"c", "l", "a", "s", "s">> -> "Class"
      [] text = <<"e", "l", "s", "e">> -> "Else"
      [] text = <<"f", "a", "l", "s", "e">> -> "False"
      [] text = <<"f", "o", "r">> -> "For"
      [] text = <<"f", "u", "n">> -> "Fun"
      [] text = <<"i", "f">> -> "If"
      [] text = <<"n", "i", "l">> -> "Nil"
      [] text = <<"o", "r">> -> "Or"
      [] text = <<"p", "r", "i", "n", "t">> -> "Print"
      [] text = <<"r", "e", "t", "u", "r", "n">> -> "Return"
      [] text = <<"s", "u", "p", "e", "r">> -> "Super"
      [] text = <<"t", "h", "i", "s">> -> "This"
      [] text = <<"t", "r", "u", "e">> -> "True"
      [] text = <<"v", "a", "r">> -> "Var"
      [] text = <<"w", "h", "i", "l", "e">> -> "While"
      [] OTHER -> "Identifier"

Scanner_is_at_end(s) == s.current >= Len(s.source)

\* the scanner after advance(); advance() returns source[current - 1]
Scanner_advance(s) ==
    [s EXCEPT !.current = @ + 1, !.col = @ + 1]

Scanner_peek(s) ==
    IF Scanner_is_at_end(s) THEN NUL ELSE s.source[s.current + 1]

peek_next(s) ==
    IF s.current + 1 >= Len(s.source) THEN NUL ELSE s.source[s.current + 2]

is_identifier(c) == c \in Letters \/ c = "_"

add_token(s, token_type, literal) ==
    LET text == SubSeq(s.source, s.start + 1, s.current)
    IN  [s EXCEPT !.tokens =
            Append(@, Token_new(token_type, text, literal, s.line, s.col))]

matches_next(s, expected) ==
    IF Scanner_is_at_end(s) THEN FALSE ELSE Scanner_peek(s) = expected

newline(s) == [s EXCEPT !.line = @ + 1, !.col = 0]

\* while self.peek() != '"' && !self.is_at_end() { ... }
RECURSIVE string_loop(_)
string_loop(s) ==
    IF Scanner_peek(s) # "\"" /\ ~Scanner_is_at_end(s)
    THEN Bind(Scanner_advance(
                  IF Scanner_peek(s) = "\n" THEN newline(s) ELSE s),
              LAMBDA s1 : string_loop(s1))
    ELSE s

\* string(), once its loop has ended
string_end(s1) ==
    IF Scanner_is_at_end(s1)
    THEN [s |-> s1,
          panic |-> "not yet implemented: Handle unterminated string"]
    ELSE LET s2 == Scanner_advance(s1)
             text == SubSeq(s2.source, s2.start + 2, s2.current - 1)
         IN  [s |-> add_token(s2, "String", SomeLiteral(TokStr(text))),
              panic |-> ""]

string(s) ==
    Bind(string_loop(s), LAMBDA s1 : string_end(s1))

\* while self.peek().is_digit(10) { self.advance(); }
RECURSIVE digit_loop(_)
digit_loop(s) ==
    IF is_digit(Scanner_peek(s))
    THEN Bind(Scanner_advance(s), LAMBDA s1 : digit_loop(s1))
    ELSE s

\* number_fraction() that takes the '.' without looking at what follows it
number_fraction_greedy(s1) ==
    IF Scanner_peek(s1) = "."
    THEN Bind(Scanner_advance(s1), LAMBDA s2 : digit_loop(s2))
    ELSE s1

\* number(): the fractional part, once the first digit loop has ended
number_fraction(s1) ==
    IF Scanner_peek(s1) = "." /\ is_digit(peek_next(s1))
    THEN Bind(Scanner_advance(s1), LAMBDA s2 : digit_loop(s2))
    ELSE s1

\* number(): the value of the lexeme and the token
number_end(s2) ==
    Bind(ParseF64(SubSeq(s2.source, s2.start + 1, s2.current)), LAMBDA val :
        IF val.ok
        THEN [s |-> add_token(s2, "Number", SomeLiteral(TokNumber(val.v))),
              panic |-> ""]
        ELSE [s |-> s2,
              panic |-> "called Result::unwrap() on an Err value"])

number(s) ==
    Bind(digit_loop(s), LAMBDA s1 :
        Bind(number_fraction(s1), LAMBDA s2 : number_end(s2)))

\* while is_identifier(self.peek()) { self.advance(); }
RECURSIVE identifier_loop(_)
identifier_loop(s) ==
    IF is_identifier(Scanner_peek(s))
    THEN Bind(Scanner_advance(s), LAMBDA s1 : identifier_loop(s1))
    ELSE s

\* identifier_end() that gives the token its text as a literal
identifier_end_with_literal(s1) ==
    LET text == SubSeq(s1.source, s1.start + 1, s1.current)
    IN  add_token(s1, KeywordOf(text), SomeLiteral(TokIdentifier(text)))

\* identifier(), once its loop has ended
identifier_end(s1) ==
    LET text == SubSeq(s1.source, s1.start + 1, s1.current)
    IN  add_token(s1, KeywordOf(text), NoLiteral)

identifier(s) ==
    Bind(identifier_loop(s), LAMBDA s1 : identifier_end(s1))

\* the loop over the rest of a comment line
RECURSIVE comment_loop(_)
comment_loop(s) ==
    IF Scanner_peek(s) # "\n" /\ ~Scanner_is_at_end(s)
    THEN Bind(Scanner_advance(s), LAMBDA s1 : comment_loop(s1))
    ELSE s

\* one_or_two() that takes the next character whatever it is
one_or_two_any(s, two, one) ==
    IF ~Scanner_is_at_end(s)
    THEN add_token(Scanner_advance(s), two, NoLiteral)
    ELSE add_token(s, one, NoLiteral)

\* the arms '!', '=', '<' and '>' of scan_token
one_or_two(s, two, one) ==
    IF matches_next(s, "=")
    THEN add_token(Scanner_advance(s), two, NoLiteral)
    ELSE add_token(s, one, NoLiteral)

SingleCharToken(c) ==
    CASE c = "(" -> "LeftParen" [] c = ")" -> "RightParen"
      [] c = "{" -> "LeftBrace" [] c = "}" -> "RightBrace"
      [] c = "," -> "Comma" [] c = "." -> "Dot" [] c = "-" -> "Minus"
      [] c = "+" -> "Plus" [] c = ";" -> "Semicolon" [] c = "*" -> "Star"

NoPanic(s) == [s |-> s, panic |-> ""]

scan_token_match(c, s) ==
        CASE c \in {"(", ")", "{", "}", ",", ".", "-", "+", ";", "*"} ->
                NoPanic(add_token(s, SingleCharToken(c), NoLiteral))
          [] c = "!" -> NoPanic(one_or_two(s, "BangEqual", "Bang"))
          [] c = "=" -> NoPanic(one_or_two(s, "EqualEqual", "Equal"))
          [] c = "<" -> NoPanic(one_or_two(s, "LessEqual", "Less"))
          [] c = ">" -> NoPanic(one_or_two(s, "GreaterEqual", "Greater"))
          [] c = "/" ->
                IF matches_next(s, "/")
                THEN NoPanic(comment_loop(s))
                ELSE NoPanic(add_token(s, "Slash", NoLiteral))
          [] c \in {" ", "\r", "\t"} -> NoPanic(s)
          [] is_digit(c) -> number(s)
          [] c = "\"" -> string(s)
          [] is_identifier(c) -> NoPanic(identifier(s))
          [] c = "\n" -> NoPanic(newline(s))
          [] OTHER ->
                [s |-> s,
                 panic |-> "not yet implemented: Handle unexpected character"]

\* scan_token: advance(), then the match on the character it returned
scan_token(s0) ==
    Bind(Scanner_advance(s0), LAMBDA s :
        scan_token_match(s0.source[s0.current + 1], s))

\* one turn of the loop of scan_tokens
scan_step(s) ==
    Bind([s EXCEPT !.start = s.current], LAMBDA s0 : scan_token(s0))

\* scan_finish() that puts the Eof token at column 0
scan_finish_col_zero(s) ==
    LET s1 == [s EXCEPT !.tokens =
                  Append(@, Token_new("Eof", <<>>, NoLiteral, s.line, 0))]
    IN  [s |-> s1,
         r |-> IF s1.err.some THEN Err(s1.err.e) ELSE Ok(s1.tokens)]

\* what scan_tokens does once the loop has ended
scan_finish(s) ==
    LET s1 == [s EXCEPT !.tokens =
                  Append(@, Token_new("Eof", <<>>, NoLiteral, s.line, s.col))]
    IN  [s |-> s1,
         r |-> IF s1.err.some THEN Err(s1.err.e) ELSE Ok(s1.tokens)]

\* the whole loop of scan_tokens
RECURSIVE scan_loop(_)
scan_loop(s) ==
    IF Scanner_is_at_end(s) THEN NoPanic(s)
    ELSE Bind(scan_step(s), LAMBDA r :
            IF r.panic # "" THEN r ELSE scan_loop(r.s))

(***************************************************************************)
(* Inputs                                                                  *)
(***************************************************************************)
SeqsUpTo(S, n) == UNION {[1..k -> S] : k \in 0..n}

\* the characters of the sources drawn character by character
Alphabet ==
    {"1", "2", ".", "\"", "\n", "=", "!", "<", "/", "a", "@", " ", "("}

SampleSources ==
    {<<"1", " ", "+", " ", "2", " ", "*", " ", "3">>,
     <<"8", " ", "-", " ", "3", " ", "-", " ", "2">>,
     <<"(", "1", " ", "+", " ", "2", ")", " ", "*", " ", "3">>,
     <<"(", "1", " ", "+", " ", "2">>,
     <<"5", " ", "=", "=", " ", "\"", "5", "\"">>,
     <<"n", "i", "l", " ", "=", "=", " ", "f", "a", "l", "s", "e">>,
     <<"\"", "a", "\"", " ", "-", " ", "1">>,
     <<"t", "r", "u", "e", " ", "*", " ", "2">>,
     <<"1", " ", "/", " ", "0">>,
     <<"\"", "a", "b", "c">>,
     <<"1", "2", ".", "5">>,
     <<"1", "2", ".">>,
     <<"1", "2", "3">>,
     <<"1", " ", "/", "/", " ", "c", "\n", "2">>,
     <<">">>, <<">", "=">>, <<">", "1">>, <<">", ">", "=">>, <<">", "=", "=">>,
     <<"1", " ", "<", "=", " ", "2", " ", ">", "=", " ", "1", " ", ">">>,
     <<"\"", "a", "\n", "b", "\"", " ", "o", "r">>}

Sources == SeqsUpTo(Alphabet, MaxSrcLen) \cup SampleSources

\* a source written lexeme by lexeme, the lexemes one space apart
RECURSIVE Join(_)
Join(lexemes) ==
    IF lexemes = <<>> THEN <<>>
    ELSE IF Len(lexemes) = 1 THEN lexemes[1]
    ELSE lexemes[1] \o <<" ">> \o Join(Tail(lexemes))

BinaryOpLexemes ==
    {<<"=", "=">>, <<"!", "=">>, <<">">>, <<">", "=">>, <<"<">>, <<"<", "=">>,
     <<"-">>, <<"+">>, <<"/">>, <<"*">>}

OperandLexemes == {<<"1">>, <<"2">>}

\* operand (operator operand)^k
RECURSIVE Chains(_)
Chains(k) ==
    IF k = 0 THEN {<<a>> : a \in OperandLexemes}
    ELSE {c \o <<op, a>> :
            c \in Chains(k - 1), op \in BinaryOpLexemes, a \in OperandLexemes}

CoreLexemes ==
    {<<"1">>, <<"+">>, <<"*">>, <<"-">>, <<"!">>, <<"=", "=">>, <<"<">>,
     <<"(">>, <<")">>}

SampleLexemes ==
    {<<<<"1">>, <<"+">>, <<"2">>, <<"*">>, <<"3">>>>,
     <<<<"8">>, <<"-">>, <<"3">>, <<"-">>, <<"2">>>>,
     <<<<"(">>, <<"1">>, <<"+">>, <<"2">>>>,
     <<<<"(">>, <<"1">>, <<"+">>, <<"2">>, <<")">>, <<"*">>, <<"3">>>>,
     <<<<"-">>, <<"-">>, <<"1">>>>,
     <<<<"1">>, <<"2">>>>,
     <<<<"\"", "a", "\"">>, <<"+">>, <<"t", "r", "u", "e">>>>,
     <<<<"n", "i", "l">>, <<"=", "=">>, <<"f", "a", "l", "s", "e">>>>}

ParseInputs ==
    UNION {Chains(k) : k \in 0..MaxOps}
    \cup SeqsUpTo(CoreLexemes, MaxTokens)
    \cup SampleLexemes

\* the lexemes of the sources whose tokens parse and synchronize are called
\* on: an operand, an operator, the end of a statement, a keyword that
\* starts a statement and one that does not
SyncLexemes ==
    {<<"1">>, <<"+">>, <<";">>, <<"v", "a", "r">>, <<"o", "r">>}

StatementKeywordLexemes ==
    {<<"c", "l", "a", "s", "s">>, <<"f", "u", "n">>, <<"v", "a", "r">>,
     <<"f", "o", "r">>, <<"i", "f">>, <<"w", "h", "i", "l", "e">>,
     <<"p", "r", "i", "n", "t">>, <<"r", "e", "t", "u", "r", "n">>}

ApiInputs ==
    SeqsUpTo(SyncLexemes, MaxTokens)
    \cup {<<<<"+">>, <<"1">>, kw, <<"1">>, <<";">>>> :
            kw \in StatementKeywordLexemes}
    \cup {<<<<"(">>, <<"1">>, <<";">>, <<";">>, <<"1">>>>}

\* the lines read at the prompt: what read_line leaves in the buffer, the
\* newline included; the empty buffer is the end of the input
PromptAlphabet == {"1", "-", "\"", " ", "@", "("}

PromptLines ==
    {l \o <<"\n">> : l \in SeqsUpTo(PromptAlphabet, MaxLineLen)}
    \cup {<<"1", " ", "+", " ", "2", "\n">>,
          <<"\"", "a", "\"", " ", "-", " ", "1", "\n">>,
          <<"-", "\"", "a", "\"", "\r", "\n">>,
          <<"(", "1", "\n">>,
          <<>>}

\* the operands of the expressions the evaluator is run on
NumLit(i) == ELiteral(LitNumber(FromInt(i)))

StrLit(s) == ELiteral(LitString(s))

StrAlphabet == {"1", ".", "a", "-"}

EvalNumLits == {NumLit(i) : i \in 0..MaxNum}

EvalStrLits ==
    {StrLit(s) : s \in SeqsUpTo(StrAlphabet, MaxStrLen)}
    \cup {StrLit(<<"5">>), StrLit(<<"a", "b", "c">>), StrLit(<<"i", "n", "f">>),
          StrLit(<<"N", "a", "N">>), StrLit(<<"1", "e", "1">>),
          StrLit(<<" ", "1">>), StrLit(<<"+", "1">>)}

EvalLits ==
    EvalNumLits \cup EvalStrLits \cup {NumLit(5)}
    \cup {ELiteral(LitBoolean(TRUE)), ELiteral(LitBoolean(FALSE)),
          ELiteral(LitNil)}

MinusOp == Op("Minus", 1, 1)

SlashOp == Op("Slash", 1, 3)

EvalOperands ==
    EvalLits
    \cup {EUnary(MinusOp, e) : e \in EvalNumLits \cup {ELiteral(LitNil)}}
    \cup {EBinary(a, SlashOp, b) : a, b \in EvalNumLits}
    \cup {EUnary(MinusOp, EBinary(NumLit(1), SlashOp, NumLit(0))),
          EGrouping(NumLit(1))}
    \cup {EUnary(MinusOp, ELiteral(LitBoolean(TRUE))),
          EGrouping(EUnary(MinusOp, ELiteral(LitNil)))}

EvalExprs ==
    EvalOperands
    \cup {EUnary(Op(ty, 1, 1), e) : ty \in UnaryOpTypes, e \in EvalOperands}
    \cup {EBinary(a, Op(ty, 1, 2), b) :
            a \in EvalOperands, ty \in BinaryOpTypes, b \in EvalOperands}

(***************************************************************************)
(* The program: Lox::run scans the source, parses the tokens and           *)
(* interprets the tree.  pc is the place in Lox::run, panic the message of *)
(* the panic that ended the run ("" when none did).                        *)
(***************************************************************************)
Init ==
    /\ \E src \in Sources : scanner = Scanner_new(src)
    /\ scanned = NotYet
    /\ parser = NotYet
    /\ parsed = NotYet
    /\ printed = NotYet
    /\ pc = "scan"
    /\ panic = ""

\* scan_tokens: one turn of `while !self.is_at_end()`
ScanToken ==
    /\ pc = "scan"
    /\ ~Scanner_is_at_end(scanner)
    /\ \E r \in {scan_step(scanner)} :
           /\ scanner' = r.s
           /\ panic' = r.panic
           /\ pc' = IF r.panic # "" THEN "panicked" ELSE "scan"
    /\ UNCHANGED <<scanned, parser, parsed, printed>>

\* scan_tokens: the Eof token and the result
ScanEnd ==
    /\ pc = "scan"
    /\ Scanner_is_at_end(scanner)
    /\ \E f \in {scan_finish(scanner)} :
           /\ scanner' = f.s
           /\ scanned' = f.r
    /\ pc' = "scanned"
    /\ UNCHANGED <<parser, parsed, printed, panic>>

\* Lox::run: scan_tokens().unwrap() and Parser::new(tokens)
NewParser ==
    /\ pc = "scanned"
    /\ IF scanned.k = "Ok"
       THEN /\ parser' = Parser_new(scanned.v)
            /\ pc' = "parse"
            /\ panic' = panic
       ELSE /\ parser' = parser
            /\ pc' = "panicked"
            /\ panic' = "called Result::unwrap() on an Err value"
    /\ UNCHANGED <<scanner, scanned, parsed, printed>>

\* Lox::run: parser.parse().unwrap()
Parse ==
    /\ pc = "parse"
    /\ \E res \in {parse(parser)} :
           /\ parser' = res.p
           /\ parsed' = IF res.r.k = "Panic" THEN parsed ELSE res.r
           /\ pc' = IF res.r.k = "Ok" THEN "interpret" ELSE "panicked"
           /\ panic' = CASE res.r.k = "Ok" -> panic
                         [] res.r.k = "Err" ->
                              "called Result::unwrap() on an Err value"
                         [] OTHER -> res.r.e
    /\ UNCHANGED <<scanner, scanned, printed>>

\* Lox::run: Interpreter::interpret(&expr), which prints the value or the
\* error
Interpret ==
    /\ pc = "interpret"
    /\ printed' = interpret_expr(parsed.v)
    /\ pc' = "done"
    /\ UNCHANGED <<scanner, scanned, parser, parsed, panic>>

Next == ScanToken \/ ScanEnd \/ NewParser \/ Parse \/ Interpret

Spec == Init /\ [][Next]_vars

(***************************************************************************)
(* The parser and the evaluator on the tokens of a source written lexeme   *)
(* by lexeme.                                                              *)
(***************************************************************************)
InitParse ==
    /\ \E lexemes \in ParseInputs :
          \E f \in {scan_finish(scan_loop(Scanner_new(Join(lexemes))).s)} :
              /\ scanner = f.s
              /\ scanned = f.r
              /\ parser = Parser_new(f.r.v)
    /\ parsed = NotYet
    /\ printed = NotYet
    /\ pc = "parse"
    /\ panic = ""

NextParse == Parse \/ Interpret

SpecParse == InitParse /\ [][NextParse]_vars

(***************************************************************************)
(* The evaluator on an expression tree.                                    *)
(***************************************************************************)
InitEval ==
    /\ scanner = NotYet
    /\ scanned = NotYet
    /\ parser = NotYet
    /\ \E e \in EvalExprs : parsed = Ok(e)
    /\ printed = NotYet
    /\ pc = "interpret"
    /\ panic = ""

NextEval == Interpret

SpecEval == InitEval /\ [][NextEval]_vars

(***************************************************************************)
(* The prompt: Lox::run_prompt reads a line and runs it, for ever.  pc is  *)
(* "prompt" before the first line and "done" when Lox::run has returned.   *)
(***************************************************************************)
WhiteSpace == {" ", "\t", "\n", "\r"}

RECURSIVE trim_start(_)
trim_start(text) ==
    IF text # <<>> /\ Head(text) \in WhiteSpace
    THEN trim_start(Tail(text)) ELSE text

RECURSIVE trim_end(_)
trim_end(text) ==
    IF text # <<>> /\ text[Len(text)] \in WhiteSpace
    THEN trim_end(SubSeq(text, 1, Len(text) - 1)) ELSE text

\* str::trim
trim(text) == trim_end(trim_start(text))

InitPrompt ==
    /\ scanner = NotYet
    /\ scanned = NotYet
    /\ parser = NotYet
    /\ parsed = NotYet
    /\ printed = NotYet
    /\ pc = "prompt"
    /\ panic = ""

\* one turn of the loop of run_prompt, up to Scanner::new in Lox::run
ReadLine ==
    /\ pc \in {"prompt", "done"}
    /\ \E buffer \in PromptLines : scanner' = Scanner_new(trim(buffer))
    /\ scanned' = NotYet
    /\ parser' = NotYet
    /\ parsed' = NotYet
    /\ printed' = NotYet
    /\ pc' = "scan"
    /\ UNCHANGED panic

NextPrompt ==
    ReadLine \/ ScanToken \/ ScanEnd \/ NewParser \/ Parse \/ Interpret

SpecPrompt == InitPrompt /\ [][NextPrompt]_vars

(***************************************************************************)
(* The public operations of a Parser, parse and synchronize, called in any *)
(* order on a parser made by Parser::new from the tokens of a source.      *)
(***************************************************************************)
InitApi ==
    /\ \E lexemes \in ApiInputs :
          \E f \in {scan_finish(scan_loop(Scanner_new(Join(lexemes))).s)} :
              /\ scanner = f.s
              /\ scanned = f.r
              /\ parser = Parser_new(f.r.v)
    /\ parsed = NotYet
    /\ printed = NotYet
    /\ pc = "new"
    /\ panic = ""

\* a call of parse()
CallParse ==
    /\ pc \in {"new", "parsed", "synchronized"}
    /\ \E res \in {parse(parser)} :
           /\ parser' = res.p
           /\ parsed' = IF res.r.k = "Panic" THEN parsed ELSE res.r
           /\ pc' = IF res.r.k = "Panic" THEN "panicked" ELSE "parsed"
           /\ panic' = IF res.r.k = "Panic" THEN res.r.e ELSE panic
    /\ UNCHANGED <<scanner, scanned, printed>>

\* a call of synchronize()
CallSynchronize ==
    /\ pc \in {"new", "parsed", "synchronized"}
    /\ \E res \in {synchronize(parser)} :
           /\ parser' = res.p
           /\ IF res.panic
              THEN pc' = "panicked" /\ panic' \in PreviousPanics
              ELSE pc' = "synchronized" /\ panic' = panic
    /\ UNCHANGED <<scanner, scanned, parsed, printed>>

NextApi == CallParse \/ CallSynchronize

SpecApi == InitApi /\ [][NextApi]_vars


(***************************************************************************)
(* Properties of the parser, under SpecParse.                              *)
(***************************************************************************)
\* the precedence level of a binary operator token, loosest first
Level(ty) ==
    CASE ty \in {"BangEqual", "EqualEqual"} -> 1
      [] ty \in {"Greater", "GreaterEqual", "Less", "LessEqual"} -> 2
      [] ty \in {"Minus", "Plus"} -> 3
      [] ty \in {"Slash", "Star"} -> 4
      [] OTHER -> 0

\* parse() has returned
ParseReturned == parser # NotYet /\ pc \in {"interpret", "done", "panicked"}

\* the tokens are `a op1 b op2 c` and the end of input, a, b and c number
\* literals and op1, op2 binary operators
IsChain3(ts) ==
    /\ Len(ts) = 6
    /\ \A i \in {1, 3, 5} : ts[i].ty = "Number"
    /\ \A i \in {2, 4} : Level(ts[i].ty) > 0
    /\ ts[6].ty = "Eof"

\* the Literal node of a number token and the operator of an operator token
LiteralOf(tok) == ELiteral(LitNumber(tok.literal.lit.n))

OperatorOf(tok) ==
    Op(IF tok.ty = "BangEqual" THEN "NotEqual" ELSE tok.ty, tok.line, tok.col)

\* Binary(a, op1, Binary(b, op2, c)) and Binary(Binary(a, op1, b), op2, c)
RightNested(ts) ==
    EBinary(LiteralOf(ts[1]), OperatorOf(ts[2]),
            EBinary(LiteralOf(ts[3]), OperatorOf(ts[4]), LiteralOf(ts[5])))

LeftNested(ts) ==
    EBinary(EBinary(LiteralOf(ts[1]), OperatorOf(ts[2]), LiteralOf(ts[3])),
            OperatorOf(ts[4]), LiteralOf(ts[5]))

\* the source the scanner was given
SourceIs(lexemes) == scanner # NotYet /\ scanner.source = Join(lexemes)

OnePlusTwoTimesThree == <<<<"1">>, <<"+">>, <<"2">>, <<"*">>, <<"3">>>>

EightMinusThreeMinusTwo == <<<<"8">>, <<"-">>, <<"3">>, <<"-">>, <<"2">>>>

\* C1: in `a op1 b op2 c` the operator of the tighter level takes its two
\* neighbours first: the tree is Binary(a, op1, Binary(b, op2, c)) when op2
\* is tighter than op1 and Binary(Binary(a, op1, b), op2, c) when op1 is
\* tighter than op2; `1 + 2 * 3` parses to Binary(1, +, Binary(2, *, 3)) and
\* evaluates to Number 7.
C1_Precedence ==
    /\ (ParseReturned /\ IsChain3(parser.tokens)) =>
          LET ts == parser.tokens
          IN  /\ Level(ts[4].ty) > Level(ts[2].ty) =>
                    parsed = Ok(RightNested(ts))
              /\ Level(ts[2].ty) > Level(ts[4].ty) =>
                    parsed = Ok(LeftNested(ts))
    /\ (ParseReturned /\ SourceIs(OnePlusTwoTimesThree)) =>
          /\ parsed.k = "Ok"
          /\ parsed.v.node = "Binary" /\ parsed.v.op.ty = "Plus"
          /\ parsed.v.left = NumLit(1)
          /\ parsed.v.right.node = "Binary" /\ parsed.v.right.op.ty = "Star"
          /\ parsed.v.right.left = NumLit(2)
          /\ parsed.v.right.right = NumLit(3)
    /\ (pc = "done" /\ SourceIs(OnePlusTwoTimesThree)) =>
          printed = Ok(VNumber(FromInt(7)))

C1_Witness ==
    /\ pc = "done"
    /\ SourceIs(OnePlusTwoTimesThree)
    /\ IsChain3(parser.tokens)
    /\ parsed = Ok(RightNested(parser.tokens))
    /\ printed = Ok(VNumber(FromInt(7)))

\* C2: in `a op1 b op2 c` with op1 and op2 of the same level the tree is
\* Binary(Binary(a, op1, b), op2, c); `8 - 3 - 2` parses to
\* Binary(Binary(8, -, 3), -, 2) and evaluates to Number 3.
C2_LeftAssociative ==
    /\ (ParseReturned /\ IsChain3(parser.tokens)) =>
          LET ts == parser.tokens
          IN  Level(ts[2].ty) = Level(ts[4].ty) => parsed = Ok(LeftNested(ts))
    /\ (ParseReturned /\ SourceIs(EightMinusThreeMinusTwo)) =>
          /\ parsed.k = "Ok"
          /\ parsed.v.node = "Binary" /\ parsed.v.op.ty = "Minus"
          /\ parsed.v.right = NumLit(2)
          /\ parsed.v.left.node = "Binary" /\ parsed.v.left.op.ty = "Minus"
          /\ parsed.v.left.left = NumLit(8)
          /\ parsed.v.left.right = NumLit(3)
    /\ (pc = "done" /\ SourceIs(EightMinusThreeMinusTwo)) =>
          printed = Ok(VNumber(FromInt(3)))

C2_Witness ==
    /\ pc = "done"
    /\ SourceIs(EightMinusThreeMinusTwo)
    /\ IsChain3(parser.tokens)
    /\ parsed = Ok(LeftNested(parser.tokens))
    /\ printed = Ok(VNumber(FromInt(3)))

\* the tokens are `(`, then a complete expression, then the end of input
MissingRightParen(ts) ==
    /\ Len(ts) >= 3
    /\ ts[1].ty = "LeftParen"
    /\ \E inner \in {parse(Parser_new(Tail(ts)))} :
          inner.r.k = "Ok" /\ inner.p.current = Len(ts) - 2

\* C6: when `(` and a complete expression are followed by the end of input,
\* parse fails with the expect-')' error at the Eof token, and returns no
\* tree.
C6_MissingRightParen ==
    (ParseReturned /\ MissingRightParen(parser.tokens)) =>
        /\ parsed.k = "Err"
        /\ parsed.e.token.ty = "Eof"
        /\ parsed.e.token = parser.tokens[Len(parser.tokens)]
        /\ parsed.e.message = ExpectRightParen

C6_Witness ==
    /\ ParseReturned
    /\ SourceIs(<<<<"(">>, <<"1">>, <<"+">>, <<"2">>>>)
    /\ MissingRightParen(parser.tokens)
    /\ parsed.k = "Err"
    /\ parsed.e.token.ty = "Eof"

\* the categories a Primary or a Unary can start with
StartsExpression(ty) ==
    ty \in {"False", "True", "Nil", "Number", "String", "LeftParen", "Bang",
            "Minus"}

\* the index of the first token that is not `(`, `-` or `!`
RECURSIVE PrefixEnd(_, _)
PrefixEnd(ts, i) ==
    IF ts[i].ty \in {"LeftParen", "Bang", "Minus"}
    THEN PrefixEnd(ts, i + 1) ELSE i

\* the first error of the parse is raised inside a group: the tokens start
\* with a run of `(`, `-` and `!` that holds a `(`, and the token after the
\* run, at index i, matches no Primary alternative
FailsInGroupAt(ts, i) ==
    /\ i = PrefixEnd(ts, 1)
    /\ \E j \in 1..(i - 1) : ts[j].ty = "LeftParen"
    /\ ~StartsExpression(ts[i].ty)

\* C14: when the first error of a parse is raised inside a parenthesised
\* group, at a token that matches no Primary alternative, parse returns that
\* unexpected-token error, not the expect-')' error, and the parser stays at
\* that token.
C14_FirstErrorReturned ==
    ParseReturned =>
        \A i \in 1..Len(parser.tokens) :
            FailsInGroupAt(parser.tokens, i) =>
                /\ parsed.k = "Err"
                /\ parsed.e.token = parser.tokens[i]
                /\ parsed.e.message = UnexpectedToken(parser.tokens[i].ty)
                /\ parser.current = i - 1

\* C15: parse accounts for every token: when it returns a tree the parser
\* is at the Eof token, and when a complete expression is followed by
\* further tokens, as in `1 2` and `1 )`, it returns an error at the first
\* of them.
C15_WholeSequenceParsed ==
    ParseReturned =>
        /\ parsed.k = "Ok" => peek(parser).ty = "Eof"
        /\ \A second \in {<<"2">>, <<")">>} :
              SourceIs(<<<<"1">>, second>>) =>
                  parsed.k = "Err" /\ parsed.e.token = parser.tokens[2]

(***************************************************************************)
(* Properties of the evaluator, under SpecEval.                            *)
(***************************************************************************)
\* interpret() has returned, having evaluated a node of the given kind whose
\* operands evaluate to values
EvaluatedBinary ==
    /\ pc = "done"
    /\ parsed.v.node = "Binary"
    /\ interpret_expr(parsed.v.left).k = "Ok"
    /\ interpret_expr(parsed.v.right).k = "Ok"

EvaluatedUnary ==
    /\ pc = "done"
    /\ parsed.v.node = "Unary"
    /\ interpret_expr(parsed.v.right).k = "Ok"

LeftValue == interpret_expr(parsed.v.left).v

RightValue == interpret_expr(parsed.v.right).v

BothNumbers(l, r) == l.ty = "Number" /\ r.ty = "Number"

BothStrings(l, r) == l.ty = "String" /\ r.ty = "String"

\* the equality of the claim
ClaimedEqual(l, r) ==
    IF l.ty = "Nil" \/ r.ty = "Nil" THEN l.ty = r.ty
    ELSE IF l.ty = "Bool" \/ r.ty = "Bool" THEN l.ty = r.ty /\ l.b = r.b
    ELSE IF BothNumbers(l, r) THEN f_eq(l.n, r.n)
    ELSE IF BothStrings(l, r) THEN l.s = r.s
    ELSE LET num == IF l.ty = "Number" THEN l.n ELSE r.n
             str == IF l.ty = "Number" THEN r.s ELSE l.s
         IN  \E q \in {ParseF64(str)} : q.ok /\ f_eq(num, q.v)

EqualsOp == Op("EqualEqual", 1, 2)

\* C3: `l == r` never fails and is Boolean(eq(l, r)), `l != r` is
\* Boolean(not eq(l, r)): Nil equals only Nil, numbers, strings and booleans
\* equal their like by value, a number equals a string exactly when the
\* string parses as that number, every other pair is unequal.
C3_Equality ==
    /\ (EvaluatedBinary /\ parsed.v.op.ty = "EqualEqual") =>
          printed = Ok(VBool(ClaimedEqual(LeftValue, RightValue)))
    /\ (EvaluatedBinary /\ parsed.v.op.ty = "NotEqual") =>
          printed = Ok(VBool(~ClaimedEqual(LeftValue, RightValue)))
    /\ (pc = "done" /\ parsed.v = EBinary(NumLit(5), EqualsOp, StrLit(<<"5">>)))
          => printed = Ok(VBool(TRUE))
    /\ (pc = "done"
        /\ parsed.v = EBinary(NumLit(5), EqualsOp, StrLit(<<"a", "b", "c">>)))
          => printed = Ok(VBool(FALSE))
    /\ (pc = "done"
        /\ parsed.v = EBinary(ELiteral(LitNil), EqualsOp,
                              ELiteral(LitBoolean(FALSE))))
          => printed = Ok(VBool(FALSE))

C3_Witness ==
    /\ EvaluatedBinary
    /\ parsed.v = EBinary(NumLit(5), EqualsOp, StrLit(<<"5">>))
    /\ printed = Ok(VBool(TRUE))

\* the cases in which the claim has a binary operator fail
ClaimedTypeError(ty, l, r) ==
    \/ ty \in {"Minus", "Star", "Slash"} /\ ~BothNumbers(l, r)
    \/ ty \in {"Greater", "GreaterEqual", "Less", "LessEqual"}
       /\ ~BothNumbers(l, r)
    \/ ty = "Plus" /\ ~BothNumbers(l, r) /\ ~BothStrings(l, r)

\* C4: an arithmetic or comparison operator returns an error, and no value,
\* exactly when an operand of - * / or of > >= < <= is no Number, or the
\* operands of + are neither two Numbers nor two Strings; otherwise it
\* returns a Number (arithmetic), the concatenated String (String + String)
\* or a Boolean (comparison).
C4_TypeErrors ==
    (EvaluatedBinary /\ parsed.v.op.ty \notin {"EqualEqual", "NotEqual"}) =>
        LET ty == parsed.v.op.ty
            l == LeftValue
            r == RightValue
        IN  /\ printed.k \in {"Ok", "Err"}
            /\ printed.k = "Err" <=> ClaimedTypeError(ty, l, r)
            /\ printed.k = "Ok" =>
                  IF ty \in {"Greater", "GreaterEqual", "Less", "LessEqual"}
                  THEN printed.v.ty = "Bool"
                  ELSE IF BothStrings(l, r)
                  THEN printed.v = VString(l.s \o r.s)
                  ELSE printed.v.ty = "Number"

C4_Witness ==
    /\ EvaluatedBinary
    /\ parsed.v = EBinary(StrLit(<<"a">>), Op("Minus", 1, 2), NumLit(1))
    /\ printed.k = "Err"

\* the truthiness of the claim
ClaimedTruthy(v) ==
    IF v.ty = "Nil" THEN FALSE
    ELSE IF v.ty = "Bool" THEN v.b
    ELSE IF v.ty = "Number" THEN ~IsZero(v.n)
    ELSE TRUE

\* C8: `!v` never fails and is Boolean(not truthy(v)): Nil is false, a
\* Boolean is itself, a Number is false exactly when it is zero, a String is
\* true; `-v` is the negated Number when v is a Number and a type error
\* otherwise.
C8_Unary ==
    /\ (EvaluatedUnary /\ parsed.v.op.ty = "Bang") =>
          printed = Ok(VBool(~ClaimedTruthy(RightValue)))
    /\ (EvaluatedUnary /\ parsed.v.op.ty = "Minus") =>
          IF RightValue.ty = "Number"
          THEN /\ printed.k = "Ok"
               /\ printed.v.ty = "Number"
               /\ IF RightValue.n.cls = "nan"
                  THEN printed.v.n.cls = "nan"
                  ELSE printed.v.n = [RightValue.n EXCEPT !.neg = ~@]
          ELSE printed.k = "Err"

C8_Witness ==
    /\ EvaluatedUnary
    /\ parsed.v = EUnary(Op("Bang", 1, 1), NumLit(0))
    /\ printed = Ok(VBool(TRUE))

\* C9: a division of two Numbers never fails; a finite non-zero Number over
\* zero is an infinity, and `1 / 0` is the positive infinity.
C9_DivisionByZero ==
    (EvaluatedBinary /\ parsed.v.op.ty = "Slash"
     /\ BothNumbers(LeftValue, RightValue)) =>
        /\ printed.k = "Ok"
        /\ printed.v.ty = "Number"
        /\ (IsZero(RightValue.n) /\ LeftValue.n.cls = "fin"
            /\ ~IsZero(LeftValue.n)) =>
              printed.v.n = Inf(LeftValue.n.neg # RightValue.n.neg)
        /\ (LeftValue = VNumber(FromInt(1)) /\ RightValue = VNumber(FromInt(0)))
              => printed = Ok(VNumber(Inf(FALSE)))

C9_Witness ==
    /\ EvaluatedBinary
    /\ parsed.v = EBinary(NumLit(1), Op("Slash", 1, 2), NumLit(0))
    /\ printed = Ok(VNumber(Inf(FALSE)))


\* two operands that fail, each with an error of its own
MinusNil == EUnary(MinusOp, ELiteral(LitNil))

MinusTrue == EUnary(MinusOp, ELiteral(LitBoolean(TRUE)))

\* C17: a Binary node, `==` and `!=` included, gives the error of its left
\* operand when that fails, whatever the right operand does, else the error
\* of its right operand when that fails, and the result of the operator on
\* the two values only when neither fails; a Unary node and a Grouping give
\* the error of their operand when it fails.  So no value comes out of a
\* tree that holds a failing operand.
C17_LeftBeforeRight ==
    pc = "done" =>
        /\ parsed.v.node = "Binary" =>
              LET l == interpret_expr(parsed.v.left)
                  r == interpret_expr(parsed.v.right)
              IN  /\ l.k = "Err" => printed = l
                  /\ (l.k = "Ok" /\ r.k = "Err") => printed = r
                  /\ (l.k = "Ok" /\ r.k = "Ok") =>
                        printed = apply_binary(parsed.v.op, l.v, r.v)
        /\ parsed.v.node = "Unary" =>
              LET v == interpret_expr(parsed.v.right)
              IN  v.k = "Err" => printed = v
        /\ parsed.v.node = "Grouping" =>
              printed = interpret_expr(parsed.v.inner)

C17_Witness ==
    /\ pc = "done"
    /\ parsed.v.node = "Binary"
    /\ parsed.v.op.ty = "EqualEqual"
    /\ parsed.v.left = MinusNil
    /\ parsed.v.right = MinusTrue
    /\ printed = Err(invalid_unary_operand(MinusOp, VNil))

(***************************************************************************)
(* Properties of the scanner, under Spec.                                  *)
(***************************************************************************)
UnexpectedCharacter == "not yet implemented: Handle unexpected character"

UnterminatedString == "not yet implemented: Handle unterminated string"

\* C5: scan_tokens never crashes: on a source with an unterminated string or
\* a character that starts no token it stops at the first such error and
\* returns Err with the line reached, and on every other source it returns
\* Ok.
C5_LexicalErrorReturned ==
    pc # "scan" =>
        /\ scanned.k \in {"Ok", "Err"}
        /\ panic \in {UnexpectedCharacter, UnterminatedString} =>
              scanned.k = "Err" /\ scanned.e.line = scanner.line

\* the number of newline characters in a text
RECURSIVE Newlines(_)
Newlines(text) ==
    IF text = <<>> THEN 0
    ELSE Newlines(Tail(text)) + (IF Head(text) = "\n" THEN 1 ELSE 0)

\* C7: the tokens scan_tokens returns hold exactly one Eof token, the last
\* one, at the line and column the scanner has reached at the end of the
\* source (line 1, column 0 for the empty source).
C7_OneEofLast ==
    scanned.k = "Ok" =>
        LET ts == scanned.v
            eof == ts[Len(ts)]
        IN  /\ Len(ts) >= 1
            /\ eof.ty = "Eof"
            /\ \A i \in 1..(Len(ts) - 1) : ts[i].ty # "Eof"
            /\ scanner.current = Len(scanner.source)
            /\ eof.line = scanner.line
            /\ eof.col = scanner.col
            /\ eof.line = 1 + Newlines(scanner.source)
            /\ scanner.source = <<>> => eof.line = 1 /\ eof.col = 0

C7_Witness ==
    /\ scanned.k = "Ok"
    /\ scanner.source = <<"1", "\n", "2">>
    /\ Len(scanned.v) = 3
    /\ scanned.v[3].ty = "Eof"
    /\ scanned.v[3].line = 2
    /\ scanned.v[3].col = 1

\* where the number literal that starts at index i of src ends: after the
\* longest run of digits, and after a '.' and a further run of digits when a
\* digit follows the '.'
NumberEnd(src, i) ==
    LET e == DigitRunEnd(src, i)
    IN  IF e + 1 <= Len(src) /\ src[e] = "." /\ is_digit(src[e + 1])
        THEN DigitRunEnd(src, e + 1)
        ELSE e

\* the value of the lexeme D or D.F
NumberValue(lexeme) ==
    LET d == DigitRunEnd(lexeme, 1)
        whole == SubSeq(lexeme, 1, d - 1)
        fraction == SubSeq(lexeme, d + 1, Len(lexeme))
    IN  Fin(FALSE, DigitsValue(whole \o fraction), Pow10(Len(fraction)))

\* the step added one token, of this category and lexeme
Emitted(ty, lexeme) ==
    /\ Len(scanner'.tokens) = Len(scanner.tokens) + 1
    /\ SubSeq(scanner'.tokens, 1, Len(scanner.tokens)) = scanner.tokens
    /\ scanner'.tokens[Len(scanner'.tokens)].ty = ty
    /\ scanner'.tokens[Len(scanner'.tokens)].lexeme = lexeme

\* C10: a scan that starts at a digit emits one Number token whose lexeme is
\* the longest run of digits, with a '.' and a further run of digits only
\* when a digit follows the '.', and stops right after it; a scan that starts
\* at a '.' emits a Dot token.  So `12.` gives Number `12`, then Dot.
C10_NumberLiteral ==
    [][(pc = "scan" /\ ~Scanner_is_at_end(scanner)) =>
        LET src == scanner.source
            i == scanner.current + 1
            e == NumberEnd(src, i)
            lexeme == SubSeq(src, i, e - 1)
        IN  /\ is_digit(src[i]) =>
                  /\ Emitted("Number", lexeme)
                  /\ scanner'.current = e - 1
                  /\ scanner'.tokens[Len(scanner'.tokens)].literal =
                        SomeLiteral(TokNumber(NumberValue(lexeme)))
            /\ src[i] = "." =>
                  /\ Emitted("Dot", <<".">>)
                  /\ scanner'.current = i]_vars

C10_Witness ==
    /\ scanner.source = <<"1", "2", ".">>
    /\ Len(scanner.tokens) >= 2
    /\ scanner.tokens[1].ty = "Number"
    /\ scanner.tokens[1].lexeme = <<"1", "2">>
    /\ scanner.tokens[1].literal = SomeLiteral(TokNumber(FromInt(12)))
    /\ scanner.tokens[2].ty = "Dot"


\* C13: a token the scanner has emitted carries a literal exactly when its
\* category is Number or String, a Number token a number and a String token
\* a string; the Identifier, keyword, punctuation, operator and Eof tokens
\* carry none.
C13_LiteralIffNumberOrString ==
    scanner # NotYet =>
        \A i \in 1..Len(scanner.tokens) :
            LET tok == scanner.tokens[i]
            IN  /\ tok.literal.some <=> tok.ty \in {"Number", "String"}
                /\ tok.ty = "Number" => tok.literal.lit.lit = "Number"
                /\ tok.ty = "String" => tok.literal.lit.lit = "Str"

C13_Witness ==
    /\ scanned.k = "Ok"
    /\ scanner.source = <<"\"", "a", "\n", "b", "\"", " ", "o", "r">>
    /\ Len(scanned.v) = 3
    /\ scanned.v[1].ty = "String"
    /\ scanned.v[1].literal = SomeLiteral(TokStr(<<"a", "\n", "b">>))
    /\ scanned.v[2].ty = "Or" /\ scanned.v[2].literal = NoLiteral
    /\ scanned.v[3].ty = "Eof" /\ scanned.v[3].literal = NoLiteral

\* the number of characters of a text after its last newline character
RECURSIVE SinceNewline(_)
SinceNewline(text) ==
    IF text = <<>> \/ text[Len(text)] = "\n" THEN 0
    ELSE 1 + SinceNewline(SubSeq(text, 1, Len(text) - 1))

\* the part of the source the scanner has consumed
Consumed == SubSeq(scanner.source, 1, scanner.current)

\* C16: the line counter is 1 plus the number of newline characters
\* consumed, and the column counter is the number of characters consumed
\* since the last newline, 0 right after one, be the newline between tokens
\* or inside a string literal; the Eof token records these counters.
C16_PositionTracking ==
    scanner # NotYet =>
        /\ scanner.line = 1 + Newlines(Consumed)
        /\ scanner.col = SinceNewline(Consumed)
        /\ scanned.k = "Ok" =>
              scanned.v[Len(scanned.v)].col = SinceNewline(scanner.source)

\* the two-character and the one-character token of `!`, `=`, `<` and `>`
TwoCharOf(c) ==
    CASE c = "!" -> "BangEqual" [] c = "=" -> "EqualEqual"
      [] c = "<" -> "LessEqual" [] c = ">" -> "GreaterEqual"

OneCharOf(c) ==
    CASE c = "!" -> "Bang" [] c = "=" -> "Equal"
      [] c = "<" -> "Less" [] c = ">" -> "Greater"

\* start <= current <= the length of the source
CursorInSource(s) == s.start <= s.current /\ s.current <= Len(s.source)

\* C18: a scan that starts at `!`, `=`, `<` or `>` emits the two-character
\* token and takes both characters exactly when a next character exists and
\* is `=`, and else emits the one-character token and takes that character
\* alone; before and after every scan of a token, whatever the source ends
\* with, start <= current <= the length of the source.
C18_TwoCharTokens ==
    [][(pc = "scan" /\ ~Scanner_is_at_end(scanner)) =>
        LET src == scanner.source
            i == scanner.current + 1
            c == src[i]
        IN  /\ c \in {"!", "=", "<", ">"} =>
                  IF i + 1 <= Len(src) /\ src[i + 1] = "="
                  THEN /\ Emitted(TwoCharOf(c), <<c, "=">>)
                       /\ scanner'.current = i + 1
                  ELSE /\ Emitted(OneCharOf(c), <<c>>)
                       /\ scanner'.current = i
            /\ CursorInSource(scanner)
            /\ CursorInSource(scanner')
            /\ scanner'.start = scanner.current
            /\ scanner'.current > scanner.current]_vars

C18_Witness ==
    /\ scanner.source = <<"!", "=", "<">>
    /\ scanner.current = 3
    /\ Len(scanner.tokens) = 2
    /\ scanner.tokens[1].ty = "BangEqual"
    /\ scanner.tokens[1].lexeme = <<"!", "=">>
    /\ scanner.tokens[2].ty = "Less"
    /\ scanner.tokens[2].lexeme = <<"<">>

(***************************************************************************)
(* Properties of parse and synchronize called in any order, under SpecApi. *)
(***************************************************************************)
\* the category of the token at position k of the parser, counted from 0
TypeAt(k) == parser.tokens[k + 1].ty

\* what synchronize is to do from position `from`: it has returned, at
\* position `to`; the token it started on is discarded unless it is the
\* end of input; it has stopped at the end of input, right after a
\* Semicolon or at a keyword that starts a statement; and it has passed no
\* such keyword and no Semicolon but the one it stopped after, the token it
\* started on aside
SynchronizedAt(from, to) ==
    /\ pc' = "synchronized"
    /\ parser'.tokens = parser.tokens
    /\ IF TypeAt(from) = "Eof" THEN to = from ELSE to > from
    /\ \/ TypeAt(to) = "Eof"
       \/ to >= 1 /\ TypeAt(to - 1) = "Semicolon"
       \/ TypeAt(to) \in StatementKeywords
    /\ \A k \in (from + 1)..(to - 1) : TypeAt(k) \notin StatementKeywords
    /\ \A k \in (from + 1)..(to - 2) : TypeAt(k) # "Semicolon"

\* C11: from any position of a parser, synchronize returns, has discarded
\* the token it started on and has stopped at the first statement boundary
\* after it: the end of input, right after a Semicolon, or a keyword that
\* starts a statement.
C11_Synchronize ==
    [][CallSynchronize => SynchronizedAt(parser.current, parser'.current)]_vars

\* C19: whatever calls of parse and synchronize are made, the cursor stays
\* between 0 and the index of the Eof token, and previous() is never read
\* at current = 0.
C19_CursorSafety ==
    (pc \in {"new", "parsed", "synchronized", "panicked"}) =>
        /\ parser.current \in 0..(Len(parser.tokens) - 1)
        /\ parser.tokens[Len(parser.tokens)].ty = "Eof"
        /\ panic \notin PreviousPanics


(***************************************************************************)
(* Properties of the prompt, under SpecPrompt.                             *)
(***************************************************************************)
\* the line being processed has hit a lexical error or a parse error
LineFailed ==
    \/ panic \in {UnexpectedCharacter, UnterminatedString}
    \/ parsed.k = "Err"

\* C12: no line ends the prompt loop: when the processing of a line hits a
\* lexical error, a parse error (the empty line has one) or a runtime type
\* error, Lox::run still returns, and the loop goes on to the next line.
C12_PromptContinues ==
    /\ pc # "panicked"
    /\ LineFailed => pc \in {"scan", "scanned", "parse", "done"}

=============================================================================
